---- MODULE Spec2Model ----
(***************************************************************************)
(* payload-dumper-rs: decoding of an Android OTA payload and parallel      *)
(* reconstruction of its partitions.                                       *)
(*                                                                         *)
(* Byte strings (the payload file, blobs, decoded buffers, output files)   *)
(* are kept run-length encoded: a sequence of runs <<value, count>> with   *)
(* count >= 1 and no two adjacent runs of the same value.  Two byte        *)
(* strings are equal exactly when their encodings are equal, and BLen is   *)
(* the exact byte length, so BLOCK_SIZE keeps its real value of 4096.      *)
(***************************************************************************)
EXTENDS Integers, Sequences, FiniteSets, TLC

VARIABLES
    entry,        \* which entry point is exercised: "extract", "pipeline" or "lookup"
    header,       \* Payload.header: [manifest_size, manifest_signature_size]
    verify,       \* Payload.verify
    cursor,       \* seek position of Payload.file (shared by every worker)
    decoded,      \* partition list as decoded from the manifest bytes, before sorting
    manifest,     \* Payload.manifest.partitions (sorted by Payload::try_from)
    partitions,   \* main: the list of requested partition names
    disk,         \* output directory: partition name -> [exists, bytes] of <name>.img
    task,         \* one record per element of `partitions` (one rayon job each)
    owners,       \* partition name -> set of workers that created or wrote <name>.img
    failOrder,    \* the failed tasks, in the order their extract returned Err
    run,          \* result of main's try_for_each: "running", "ok" or [err |-> task]
    rdr,          \* PartitionReader: [operations, data_offset, checksum, pos]
    items,        \* what the PartitionReader iterator has yielded so far
    rstate,       \* [removed, last]: operations removed from the queue, last return of next()
    destination,  \* PartitionDecoder.destination (bytes of the destination)
    wx,           \* last write_extent call: [extent, status, before]
    looked        \* last Payload::partition call: [name, result]

vars == <<entry, header, verify, cursor, decoded, manifest, partitions, disk, task,
          owners, failOrder, run, rdr, items, rstate, destination, wx, looked>>

----------------------------------------------------------------------------
(* Program constants *)

HEADER_SIZE == 24
BLOCK_SIZE == 4096

(* Bounds of the model *)

MaxManifestSize == 2
MaxSigSize == 1
MaxStartBlock == 1
MaxNumBlocks == 2
MaxReq == 2
MaxThreads == 2
MaxQueue == 2
MaxLookupParts == 3

----------------------------------------------------------------------------
(* Run-length encoded byte strings *)

RECURSIVE BLen(_)
BLen(b) == IF b = <<>> THEN 0 ELSE Head(b)[2] + BLen(Tail(b))

RECURSIVE Norm(_)
Norm(b) ==
    IF b = <<>> THEN <<>>
    ELSE IF Head(b)[2] = 0 THEN Norm(Tail(b))
    ELSE LET r == Norm(Tail(b)) IN
         IF r # <<>> /\ Head(r)[1] = Head(b)[1]
         THEN << <<Head(b)[1], Head(b)[2] + Head(r)[2]>> >> \o Tail(r)
         ELSE <<Head(b)>> \o r

Fill(v, n) == IF n = 0 THEN <<>> ELSE << <<v, n>> >>

\* vec![0u8; n]
Zeros(n) == Fill(0, n)

RECURSIVE Take(_, _)
Take(b, n) ==
    IF n = 0 \/ b = <<>> THEN <<>>
    ELSE IF Head(b)[2] >= n THEN << <<Head(b)[1], n>> >>
    ELSE <<Head(b)>> \o Take(Tail(b), n - Head(b)[2])

RECURSIVE Drop(_, _)
Drop(b, n) ==
    IF n = 0 \/ b = <<>> THEN b
    ELSE IF Head(b)[2] > n THEN << <<Head(b)[1], Head(b)[2] - n>> >> \o Tail(b)
    ELSE Drop(Tail(b), n - Head(b)[2])

\* the bytes [off, off + len) of b (fewer when b is shorter)
Slice(b, off, len) == Take(Drop(b, off), len)

\* byte i (0-based) of b, for i < BLen(b)
RECURSIVE ByteAt(_, _)
ByteAt(b, i) == IF Head(b)[2] > i THEN Head(b)[1] ELSE ByteAt(Tail(b), i - Head(b)[2])

\* FileExt::write_all_at / seek + write_all: a write past the end leaves a hole of zeros
WriteAt(f, off, data) ==
    IF data = <<>> THEN f
    ELSE LET padded == IF BLen(f) < off THEN f \o Zeros(off - BLen(f)) ELSE f IN
         Norm(Take(padded, off) \o data \o Drop(f, off + BLen(data)))

----------------------------------------------------------------------------
(* Partition names (byte strings, compared byte-wise as Rust compares str) *)

RECURSIVE NameCmp(_, _)
NameCmp(a, b) ==
    IF a = <<>> /\ b = <<>> THEN "Equal"
    ELSE IF a = <<>> THEN "Less"
    ELSE IF b = <<>> THEN "Greater"
    ELSE IF Head(a) < Head(b) THEN "Less"
    ELSE IF Head(a) > Head(b) THEN "Greater"
    ELSE NameCmp(Tail(a), Tail(b))

\* one insertion of a stable sort: p goes after every element whose key is <= its key
RECURSIVE InsertByName(_, _)
InsertByName(s, p) ==
    IF s = <<>> THEN <<p>>
    ELSE IF NameCmp(p.partition_name, Head(s).partition_name) = "Less"
         THEN <<p>> \o s
         ELSE <<Head(s)>> \o InsertByName(Tail(s), p)

RECURSIVE SortFrom(_, _)
SortFrom(sorted, rest) ==
    IF rest = <<>> THEN sorted
    ELSE SortFrom(InsertByName(sorted, Head(rest)), Tail(rest))

\* mutant: the partitions are left in the order the manifest lists them
SortByNameSkipped(ps) == ps

\* manifest.partitions.sort_by_key(|p| p.partition_name.to_owned())
SortByName(ps) == SortFrom(<<>>, ps)

\* the loop of slice::binary_search_by: halves `size` while keeping the candidate at `base`
RECURSIVE BinarySearchStep(_, _, _, _)
BinarySearchStep(ps, name, base, size) ==
    IF size <= 1 THEN base
    ELSE LET half == size \div 2
             mid == base + half
             cmp == NameCmp(ps[mid + 1].partition_name, name)
         IN BinarySearchStep(ps, name, IF cmp = "Greater" THEN base ELSE mid, size - half)

\* mutant: a miss resolves to the partition at (or next to) the insertion point
partitionOrNearest(ps, name) ==
    IF ps = <<>> THEN [ok |-> FALSE, idx |-> 0]
    ELSE LET base == BinarySearchStep(ps, name, 0, Len(ps)) IN [ok |-> TRUE, idx |-> base + 1]

\* Payload::partition: Ok(index, 1-based here) or Err(insertion point)
partition(ps, name) ==
    IF ps = <<>> THEN [ok |-> FALSE, idx |-> 0]
    ELSE LET base == BinarySearchStep(ps, name, 0, Len(ps))
             cmp == NameCmp(ps[base + 1].partition_name, name)
         IN IF cmp = "Equal" THEN [ok |-> TRUE, idx |-> base + 1]
            ELSE [ok |-> FALSE, idx |-> base + (IF cmp = "Less" THEN 1 ELSE 0)]

----------------------------------------------------------------------------
(* Digests and codecs *)

RECURSIVE ByteSum(_)
ByteSum(b) == IF b = <<>> THEN 0 ELSE (Head(b)[1] + 1) * Head(b)[2] + ByteSum(Tail(b))

\* Sha256::digest, reduced to a one-byte digest of the content and the length
Sha256(b) == <<(ByteSum(b) + 7 * BLen(b)) % 251>>

\* hex::encode: two hexadecimal digits per byte
RECURSIVE HexEncode(_)
HexEncode(d) ==
    IF d = <<>> THEN <<>>
    ELSE <<Head(d) \div 16, Head(d) % 16>> \o HexEncode(Tail(d))

\* The decompressors (XzDecoder, BzDecoder, zstd Decoder) as a stream over the blob:
\* each pair of encoded bytes (count, value) inflates to count * BLOCK_SIZE/2 bytes of
\* value; a trailing single byte is a corrupt stream.  Inflate decodes from byte `pos`
\* until more than `limit` bytes are out, the blob ends, or the stream is corrupt.
RECURSIVE Inflate(_, _, _, _)
Inflate(blob, pos, out, limit) ==
    IF BLen(out) > limit THEN [out |-> out, end |-> "more"]
    ELSE IF pos = BLen(blob) THEN [out |-> out, end |-> "eof"]
    ELSE IF pos + 1 = BLen(blob) THEN [out |-> out, end |-> "corrupt"]
    ELSE Inflate(blob, pos + 2,
                 Norm(out \o Fill(ByteAt(blob, pos + 1),
                                  ByteAt(blob, pos) * (BLOCK_SIZE \div 2))),
                 limit)

\* decoder.read_exact(&mut vec![0u8; n]): the first n decoded bytes, or an error when
\* the stream ends or fails before n bytes are out; what follows them is never read
ReadExact(blob, n) ==
    LET s == Inflate(blob, 0, <<>>, n) IN
    IF BLen(s.out) >= n THEN [ok |-> TRUE, bytes |-> Take(s.out, n)]
    ELSE [ok |-> FALSE, bytes |-> <<>>]

\* the stream decodes to exactly n bytes and ends cleanly
DecodesToExactly(blob, n) ==
    LET s == Inflate(blob, 0, <<>>, n) IN s.end = "eof" /\ BLen(s.out) = n

----------------------------------------------------------------------------
(* The payload file *)

\* the data blob region: two short compressed streams, then one raw block
DataBlob == << <<2, 1>>, <<7, 1>>, <<3, 1>>, <<7, 1>>, <<5, BLOCK_SIZE>> >>

\* header (24 bytes), manifest, manifest signature, data blobs
PayloadFile(h) ==
    Norm(Fill(67, HEADER_SIZE) \o Fill(10, h.manifest_size)
         \o Fill(11, h.manifest_signature_size) \o DataBlob)

\* Payload::data_offset
data_offset(h) == HEADER_SIZE + h.manifest_size + h.manifest_signature_size

\* mutant: the read is positioned at data_offset alone, from the start of the file
read_data_blob_unbased(h, offset, len) ==
    IF offset + len > BLen(PayloadFile(h)) THEN [ok |-> FALSE, at |-> offset, bytes |-> <<>>]
    ELSE [ok |-> TRUE, at |-> offset, bytes |-> Slice(PayloadFile(h), offset, len)]

\* Payload::read_data_blob: read_exact_at fails when the file ends before len bytes
read_data_blob(h, offset, len) ==
    LET at == data_offset(h) + offset IN
    IF at + len > BLen(PayloadFile(h)) THEN [ok |-> FALSE, at |-> at, bytes |-> <<>>]
    ELSE [ok |-> TRUE, at |-> at, bytes |-> Slice(PayloadFile(h), at, len)]

----------------------------------------------------------------------------
(* Install operations *)

\* install_operation::Type: the five handled types and one of the others
Types == {"Replace", "ReplaceBz", "ReplaceXz", "ReplaceZstd", "Zero", "Move"}

Extents == [start_block : 0..MaxStartBlock, num_blocks : 0..MaxNumBlocks]

\* no extent, one extent, or two (only the first is ever consulted)
ExtentLists ==
    {<<>>} \cup {<<e>> : e \in Extents}
           \cup {<<[start_block |-> 1, num_blocks |-> 1], [start_block |-> 0, num_blocks |-> 1]>>}

DataOffsets == {0, 2, 4}
DataLengths == {0, 2, BLOCK_SIZE, BLOCK_SIZE + 1}

\* the digest of the addressed bytes, another digest, and no digest at all
Hashes(o, l) ==
    LET d == Sha256(Slice(DataBlob, o, l)) IN {d, <<(d[1] + 1) % 251>>, <<>>}

Ops ==
    UNION { UNION { [type : Types, data_offset : {o}, data_length : {l},
                     data_sha256_hash : Hashes(o, l), dst_extents : ExtentLists]
                    : l \in DataLengths } : o \in DataOffsets }

\* mutant: an operation of any other type is skipped (decoded to nothing) without error
DecodeSkipsOthers(type, blob, expected_size) ==
    CASE type = "Zero" -> [ok |-> TRUE, error |-> "", bytes |-> Zeros(expected_size)]
      [] type = "Replace" -> [ok |-> TRUE, error |-> "", bytes |-> blob]
      [] type \in {"ReplaceXz", "ReplaceBz", "ReplaceZstd"} ->
            LET r == ReadExact(blob, expected_size) IN
            IF r.ok THEN [ok |-> TRUE, error |-> "", bytes |-> r.bytes]
            ELSE [ok |-> FALSE, error |-> "decode", bytes |-> <<>>]
      [] OTHER -> [ok |-> TRUE, error |-> "", bytes |-> <<>>]

\* mutant: a ZERO operation is filled from the blob it addresses, padded with zeros
DecodeZeroFromBlob(type, blob, expected_size) ==
    CASE type = "Zero" ->
            [ok |-> TRUE, error |-> "",
             bytes |-> Norm(Take(blob, expected_size)
                            \o Zeros(expected_size - BLen(Take(blob, expected_size))))]
      [] type = "Replace" -> [ok |-> TRUE, error |-> "", bytes |-> blob]
      [] type \in {"ReplaceXz", "ReplaceBz", "ReplaceZstd"} ->
            LET r == ReadExact(blob, expected_size) IN
            IF r.ok THEN [ok |-> TRUE, error |-> "", bytes |-> r.bytes]
            ELSE [ok |-> FALSE, error |-> "decode", bytes |-> <<>>]
      [] OTHER -> [ok |-> FALSE, error |-> "type", bytes |-> <<>>]

\* Payload::extract, the match on operation.type()
Decode(type, blob, expected_size) ==
    CASE type = "Zero" -> [ok |-> TRUE, error |-> "", bytes |-> Zeros(expected_size)]
      [] type = "Replace" -> [ok |-> TRUE, error |-> "", bytes |-> blob]
      [] type \in {"ReplaceXz", "ReplaceBz", "ReplaceZstd"} ->
            LET r == ReadExact(blob, expected_size) IN
            IF r.ok THEN [ok |-> TRUE, error |-> "", bytes |-> r.bytes]
            ELSE [ok |-> FALSE, error |-> "decode", bytes |-> <<>>]
      [] OTHER -> [ok |-> FALSE, error |-> "type", bytes |-> <<>>]

NoRead == [done |-> FALSE, ok |-> FALSE, at |-> 0, len |-> 0, bytes |-> <<>>]

Failed(kind, rd) ==
    [status |-> "err", error |-> kind, read |-> rd, at |-> 0, data |-> <<>>]

\* mutant: only the lengths of the two hex digests are compared
HashMismatchByLength(v, type, blob, expected_hash) ==
    /\ v
    /\ type # "Zero"
    /\ Len(HexEncode(Sha256(blob))) # Len(HexEncode(expected_hash))

\* Payload::extract, the hash check: on, not a ZERO operation, and the hex digests differ
HashMismatch(v, type, blob, expected_hash) ==
    /\ v
    /\ type # "Zero"
    /\ HexEncode(Sha256(blob)) # HexEncode(expected_hash)

\* Payload::extract, the body of the loop over partition.operations
ProcessOperation(op, v, h) ==
    IF op.dst_extents = <<>> THEN Failed("dst_extents", NoRead)
    ELSE LET dst_extent == Head(op.dst_extents)
             expected_size == dst_extent.num_blocks * BLOCK_SIZE
             blob == read_data_blob(h, op.data_offset, op.data_length)
             rd == [done |-> TRUE, ok |-> blob.ok, at |-> blob.at,
                    len |-> op.data_length, bytes |-> blob.bytes]
         IN IF ~blob.ok THEN Failed("read", rd)
            ELSE IF HashMismatch(v, op.type, blob.bytes, op.data_sha256_hash)
            THEN Failed("hash", rd)
            ELSE LET d == Decode(op.type, blob.bytes, expected_size) IN
                 IF ~d.ok THEN Failed(d.error, rd)
                 ELSE [status |-> "written", error |-> "", read |-> rd,
                       at |-> dst_extent.start_block * BLOCK_SIZE, data |-> d.bytes]

----------------------------------------------------------------------------
(* Inputs of a run *)

NameA == <<97>>
NameAB == <<97, 98>>
NameB == <<98>>
PartNames == {NameA, NameAB, NameB}

Headers ==
    [manifest_size : 1..MaxManifestSize, manifest_signature_size : 0..MaxSigSize]

\* the orders in which a set can be listed
Orderings(S) ==
    {s \in [1..Cardinality(S) -> S] : \A i, j \in 1..Cardinality(S) : s[i] = s[j] => i = j}

\* sequences over S of length lo..hi
SeqsOf(S, lo, hi) == UNION {[1..n -> S] : n \in lo..hi}

\* a raw block written to block 0, a zero block at block 1, and two raw bytes whose
\* digest is that of other bytes
GoodReplace ==
    [type |-> "Replace", data_offset |-> 4, data_length |-> BLOCK_SIZE,
     data_sha256_hash |-> Sha256(Slice(DataBlob, 4, BLOCK_SIZE)),
     dst_extents |-> <<[start_block |-> 0, num_blocks |-> 1]>>]
GoodZero ==
    [type |-> "Zero", data_offset |-> 0, data_length |-> 0,
     data_sha256_hash |-> <<>>,
     dst_extents |-> <<[start_block |-> 1, num_blocks |-> 1]>>]
BadHash ==
    [type |-> "Replace", data_offset |-> 0, data_length |-> 2,
     data_sha256_hash |-> Sha256(Slice(DataBlob, 2, 2)),
     dst_extents |-> <<[start_block |-> 1, num_blocks |-> 1]>>]

NoFile == [exists |-> FALSE, bytes |-> <<>>]
\* an image left in the output directory by an earlier run
Stale == [exists |-> TRUE, bytes |-> Fill(9, 3)]

NoOutcome == [status |-> "none", error |-> "", read |-> NoRead, at |-> 0, data |-> <<>>]

InitTask ==
    [pc |-> "pending", worker |-> 0, part |-> 0, idx |-> 0, error |-> "",
     created |-> FALSE, nreads |-> 0, wlog |-> <<>>, op |-> 0, last |-> NoOutcome]

NoReader == [operations |-> <<>>, data_offset |-> 0, checksum |-> FALSE, pos |-> 0]
NoExtent == [blob |-> <<>>, operation_type |-> "Zero", start_block |-> 0, num_blocks |-> 0]
NoCall == [n |-> 0, extent |-> NoExtent, status |-> "none", data |-> <<>>, before |-> <<>>]
NoLookup == [name |-> <<>>, called |-> FALSE, result |-> [ok |-> FALSE, idx |-> 0]]

\* Payload::partition_list
partition_list(ps) == [i \in 1..Len(ps) |-> ps[i].partition_name]

\* the parts of the state the pipeline and lookup entry points use, untouched here
OthersIdle ==
    /\ rdr = NoReader
    /\ items = <<>>
    /\ rstate = [removed |-> 0, last |-> "none"]
    /\ destination = <<>>
    /\ wx = NoCall
    /\ looked = NoLookup

\* main after Payload::try_from, create_dir_all and the choice of `partitions`
InitRun(h, v, ps, args) ==
    /\ entry = "extract"
    /\ header = h
    /\ verify = v
    /\ cursor = data_offset(h)
    /\ decoded = ps
    /\ manifest = SortByName(ps)
    /\ partitions = IF args = <<>> THEN partition_list(SortByName(ps)) ELSE args
    /\ disk = [n \in PartNames |-> IF n = NameB THEN Stale ELSE NoFile]
    /\ task = [t \in 1..Len(partitions) |-> InitTask]
    /\ owners = [n \in PartNames |-> {}]
    /\ failOrder = <<>>
    /\ run = [state |-> "running", task |-> 0]
    /\ OthersIdle

\* one partition extracted alone: an operation of any shape, after at most one good
\* operation and before one more
InitOne ==
    \E h \in Headers, v \in BOOLEAN, op \in Ops, pre \in {<<>>, <<GoodReplace>>} :
        InitRun(h, v, <<[partition_name |-> NameA,
                         operations |-> pre \o <<op>> \o <<GoodZero>>]>>,
                <<NameA>>)

\* the operation lists of the partitions main is run on: two good operations, or a
\* good one and one that fails
Shapes == {<<GoodReplace, GoodReplace>>, <<GoodReplace, BadHash>>}

\* the names of S from the last in sort order to the first
Descending(S) ==
    CHOOSE s \in Orderings(S) :
        \A i, j \in 1..Len(s) : i < j => NameCmp(s[i], s[j]) = "Greater"

\* one or two of the three partition names, listed in descending order (some name is
\* always unknown to the manifest), and up to MaxReq requested names (none: every
\* partition)
InitMany ==
    \E S \in (SUBSET PartNames) \ {{}, PartNames} :
        \E ops \in [S -> Shapes], args \in SeqsOf(PartNames, 0, MaxReq) :
              InitRun([manifest_size |-> MaxManifestSize,
                       manifest_signature_size |-> MaxSigSize], TRUE,
                      [i \in 1..Cardinality(S) |->
                          [partition_name |-> Descending(S)[i],
                           operations |-> ops[Descending(S)[i]]]],
                      args)

----------------------------------------------------------------------------
(* main: rayon's try_for_each over `partitions`, and Payload::extract *)

Tasks == DOMAIN task
Workers == 1..MaxThreads

Busy(w) == \E t \in Tasks : task[t].pc = "loop" /\ task[t].worker = w

\* a worker takes a job: Payload::extract up to the loop (lookup, File::create)
Start(w, t) ==
    /\ entry = "extract"
    /\ run.state = "running"
    /\ task[t].pc = "pending"
    /\ ~Busy(w)
    /\ LET found == partition(manifest, partitions[t]) IN
       IF ~found.ok
       THEN /\ task' = [task EXCEPT ![t].pc = "ok", ![t].worker = w]
            /\ UNCHANGED <<disk, owners>>
       ELSE LET name == manifest[found.idx].partition_name IN
            /\ task' = [task EXCEPT ![t].pc = "loop", ![t].worker = w,
                                    ![t].part = found.idx, ![t].idx = 1,
                                    ![t].created = TRUE]
            /\ disk' = [disk EXCEPT ![name] = [exists |-> TRUE, bytes |-> <<>>]]
            /\ owners' = [owners EXCEPT ![name] = @ \cup {w}]
    /\ UNCHANGED <<entry, header, verify, cursor, decoded, manifest, partitions,
                   failOrder, run, rdr, items, rstate, destination, wx, looked>>

\* one iteration of the loop over partition.operations
Step(t) ==
    /\ entry = "extract"
    /\ task[t].pc = "loop"
    /\ task[t].idx <= Len(manifest[task[t].part].operations)
    /\ LET p == manifest[task[t].part]
           name == p.partition_name
           i == task[t].idx
           out == ProcessOperation(p.operations[i], verify, header)
           n == task[t].nreads + (IF out.read.done THEN 1 ELSE 0)
       IN IF out.status = "written"
          THEN /\ disk' = [disk EXCEPT ![name].bytes = WriteAt(@, out.at, out.data)]
               /\ owners' = [owners EXCEPT ![name] = @ \cup {task[t].worker}]
               /\ task' = [task EXCEPT ![t].idx = i + 1, ![t].nreads = n,
                                       ![t].op = i, ![t].last = out,
                                       ![t].wlog = Append(@, [op |-> i, at |-> out.at,
                                                              data |-> out.data])]
               /\ UNCHANGED failOrder
          ELSE /\ task' = [task EXCEPT ![t].pc = "err", ![t].error = out.error,
                                       ![t].nreads = n, ![t].op = i, ![t].last = out]
               /\ failOrder' = Append(failOrder, t)
               /\ UNCHANGED <<disk, owners>>
    /\ UNCHANGED <<entry, header, verify, cursor, decoded, manifest, partitions,
                   run, rdr, items, rstate, destination, wx, looked>>

\* the loop is over: extract returns Ok(())
Return(t) ==
    /\ entry = "extract"
    /\ task[t].pc = "loop"
    /\ task[t].idx > Len(manifest[task[t].part].operations)
    /\ task' = [task EXCEPT ![t].pc = "ok"]
    /\ UNCHANGED <<entry, header, verify, cursor, decoded, manifest, partitions, disk,
                   owners, failOrder, run, rdr, items, rstate, destination, wx, looked>>

\* try_for_each stops handing out jobs once one has failed (as soon as it can)
Skip(t) ==
    /\ entry = "extract"
    /\ run.state = "running"
    /\ task[t].pc = "pending"
    /\ failOrder # <<>>
    /\ task' = [task EXCEPT ![t].pc = "skipped"]
    /\ UNCHANGED <<entry, header, verify, cursor, decoded, manifest, partitions, disk,
                   owners, failOrder, run, rdr, items, rstate, destination, wx, looked>>

\* mutant: the results of the jobs are dropped and the run returns Ok
JoinDropsErrors ==
    /\ entry = "extract"
    /\ run.state = "running"
    /\ \A t \in Tasks : task[t].pc \in {"ok", "err", "skipped"}
    /\ run' = [state |-> "ok", task |-> 0]
    /\ UNCHANGED <<entry, header, verify, cursor, decoded, manifest, partitions, disk,
                   task, owners, failOrder, rdr, items, rstate, destination, wx, looked>>

\* try_for_each returns when every job has ended: Ok, or the error of one failed job.
\* rayon leaves open which one ("if there are multiple errors in parallel, it is not
\* specified which will be returned"); its reduction of two halves of the list keeps
\* the error of the left half, so the error of the failed job earliest in the list
\* comes out, whenever it failed.
Join ==
    /\ entry = "extract"
    /\ run.state = "running"
    /\ \A t \in Tasks : task[t].pc \in {"ok", "err", "skipped"}
    /\ IF failOrder = <<>>
       THEN run' = [state |-> "ok", task |-> 0]
       ELSE LET failed == {failOrder[i] : i \in 1..Len(failOrder)} IN
            run' = [state |-> "err",
                    task |-> CHOOSE t \in failed : \A u \in failed : t <= u]
    /\ UNCHANGED <<entry, header, verify, cursor, decoded, manifest, partitions, disk,
                   task, owners, failOrder, rdr, items, rstate, destination, wx, looked>>

\* Payload::extract called directly, on the caller's thread
Call(t) == Start(1, t)

----------------------------------------------------------------------------
(* PartitionReader and PartitionDecoder *)

ReaderOps ==
    {op \in Ops : /\ op.type \in {"Replace", "Zero", "Move"}
                  /\ <<op.data_offset, op.data_length>> \in {<<0, 2>>, <<4, BLOCK_SIZE + 1>>}
                  /\ op.dst_extents \in {<<>>, <<[start_block |-> 1, num_blocks |-> 2]>>}}

\* PartitionExtent::new
PartitionExtent(blob, operation_type, extent) ==
    [blob |-> blob, operation_type |-> operation_type,
     start_block |-> extent.start_block, num_blocks |-> extent.num_blocks]

\* PartitionReader::new over the payload file, with or without the checksum
InitPipeline ==
    \E c \in BOOLEAN, ops \in SeqsOf(ReaderOps, 0, MaxQueue) :
        /\ entry = "pipeline"
        /\ header = [manifest_size |-> MaxManifestSize,
                     manifest_signature_size |-> MaxSigSize]
        /\ verify = c
        /\ cursor = data_offset(header)
        /\ decoded = <<[partition_name |-> NameA, operations |-> ops]>>
        /\ manifest = decoded
        /\ partitions = <<>>
        /\ disk = [n \in PartNames |-> NoFile]
        /\ task = <<>>
        /\ owners = [n \in PartNames |-> {}]
        /\ failOrder = <<>>
        /\ run = [state |-> "running", task |-> 0]
        /\ rdr = [operations |-> ops, data_offset |-> data_offset(header),
                  checksum |-> c, pos |-> 0]
        /\ items = <<>>
        /\ rstate = [removed |-> 0, last |-> "none"]
        /\ destination = <<>>
        /\ wx = NoCall
        /\ looked = NoLookup

\* PartitionReader::next: what it returns and the reader it leaves
next(r, file) ==
    IF r.operations = <<>> THEN [ret |-> "None", item |-> NoExtent, rdr |-> r, removed |-> 0]
    ELSE LET operation == Head(r.operations)
             rest == [r EXCEPT !.operations = Tail(r.operations)]
         IN IF operation.dst_extents = <<>>
            THEN [ret |-> "None", item |-> NoExtent, rdr |-> rest, removed |-> 1]
            ELSE LET at == r.data_offset + operation.data_offset
                     buf == Slice(file, at, operation.data_length)
                     item == PartitionExtent(buf, operation.type, Head(operation.dst_extents))
                 IN IF at + operation.data_length > BLen(file)
                    THEN [ret |-> "panic", item |-> NoExtent,
                          rdr |-> [rest EXCEPT !.pos = BLen(file)], removed |-> 1]
                    ELSE IF /\ r.checksum
                            /\ operation.type # "Zero"
                            /\ HexEncode(Sha256(buf)) # HexEncode(operation.data_sha256_hash)
                    THEN [ret |-> "Err", item |-> item,
                          rdr |-> [rest EXCEPT !.pos = at + operation.data_length],
                          removed |-> 1]
                    ELSE [ret |-> "Ok", item |-> item,
                          rdr |-> [rest EXCEPT !.pos = at + operation.data_length],
                          removed |-> 1]

\* the iterator is advanced once (a panic unwinds the caller: no call follows it)
ReaderNext ==
    /\ entry = "pipeline"
    /\ rstate.last # "panic"
    /\ LET n == next(rdr, PayloadFile(header)) IN
       /\ rdr' = n.rdr
       /\ rstate' = [removed |-> rstate.removed + n.removed, last |-> n.ret]
       /\ items' = IF n.ret \in {"Ok", "Err"}
                   THEN Append(items, [ok |-> n.ret = "Ok", op |-> rstate.removed + 1,
                                       extent |-> n.item])
                   ELSE items
    /\ rstate.last # "None" \/ rdr.operations # <<>>
    /\ UNCHANGED <<entry, header, verify, cursor, decoded, manifest, partitions, disk,
                   task, owners, failOrder, run, destination, wx, looked>>

\* PartitionDecoder::write_extent: its result and the destination it leaves
write_extent(dest, extent) ==
    LET operation_type == extent.operation_type
        start_offset == extent.start_block * BLOCK_SIZE
        expected_size == extent.num_blocks * BLOCK_SIZE
        blob == extent.blob
        ok(bytes) == [status |-> "ok", destination |-> WriteAt(dest, start_offset, bytes),
                      data |-> bytes]
        err == [status |-> "err", destination |-> dest, data |-> <<>>]
    IN CASE operation_type = "Zero" -> ok(Zeros(expected_size))
         [] operation_type = "Replace" -> ok(blob)
         [] operation_type \in {"ReplaceXz", "ReplaceBz", "ReplaceZstd"} ->
               LET r == ReadExact(blob, expected_size) IN
               IF r.ok THEN ok(r.bytes) ELSE err
         [] OTHER -> err

\* the caller hands the next yielded item to the decoder (an Err item is only seen)
Feed ==
    /\ entry = "pipeline"
    /\ wx.n < Len(items)
    /\ LET it == items[wx.n + 1] IN
       IF it.ok
       THEN LET r == write_extent(destination, it.extent) IN
            /\ destination' = r.destination
            /\ wx' = [n |-> wx.n + 1, extent |-> it.extent, status |-> r.status,
                      data |-> r.data, before |-> destination]
       ELSE /\ wx' = [wx EXCEPT !.n = wx.n + 1, !.status = "none"]
            /\ UNCHANGED destination
    /\ UNCHANGED <<entry, header, verify, cursor, decoded, manifest, partitions, disk,
                   task, owners, failOrder, run, rdr, items, rstate, looked>>

----------------------------------------------------------------------------
(* Payload::try_from's sort and Payload::partition *)

LookupNames == PartNames \cup {<<97, 97>>, <<98, 97>>}

InitLookup ==
    \E S \in SUBSET LookupNames :
        /\ Cardinality(S) <= MaxLookupParts
        /\ \E order \in Orderings(S) :
              /\ entry = "lookup"
              /\ header = [manifest_size |-> MaxManifestSize,
                           manifest_signature_size |-> MaxSigSize]
              /\ verify = TRUE
              /\ cursor = data_offset(header)
              /\ decoded = [i \in 1..Len(order) |->
                               [partition_name |-> order[i], operations |-> <<>>]]
              /\ manifest = SortByName(decoded)
              /\ partitions = <<>>
              /\ disk = [n \in PartNames |-> NoFile]
              /\ task = <<>>
              /\ owners = [n \in PartNames |-> {}]
              /\ failOrder = <<>>
              /\ run = [state |-> "running", task |-> 0]
              /\ OthersIdle

Lookup(name) ==
    /\ entry = "lookup"
    /\ looked' = [name |-> name, called |-> TRUE, result |-> partition(manifest, name)]
    /\ UNCHANGED <<entry, header, verify, cursor, decoded, manifest, partitions, disk,
                   task, owners, failOrder, run, rdr, items, rstate, destination, wx>>

----------------------------------------------------------------------------
(* Specifications *)

\* the library: Payload::extract, PartitionReader, PartitionDecoder
Init == InitOne \/ InitPipeline

Next ==
    \/ \E t \in Tasks : Call(t)
    \/ \E t \in Tasks : Step(t)
    \/ \E t \in Tasks : Return(t)
    \/ ReaderNext
    \/ Feed

Spec == Init /\ [][Next]_vars

\* main: the requested partitions extracted in parallel
NextMain ==
    \/ \E w \in Workers, t \in Tasks : Start(w, t)
    \/ \E t \in Tasks : Step(t)
    \/ \E t \in Tasks : Return(t)
    \/ \E t \in Tasks : Skip(t)
    \/ Join

SpecMain == InitMany /\ [][NextMain]_vars

\* the partition index
NextLookup == \E name \in LookupNames : Lookup(name)

SpecLookup == InitLookup /\ [][NextLookup]_vars

----------------------------------------------------------------------------
(* Vocabulary of the properties *)

Supported == {"Replace", "ReplaceXz", "ReplaceBz", "ReplaceZstd", "Zero"}
Compressed == {"ReplaceXz", "ReplaceBz", "ReplaceZstd"}

\* the operations of the partition task t extracts
OpsOf(t) == manifest[task[t].part].operations

\* where the data blob region starts in the payload file
BlobBase == 24 + header.manifest_size + header.manifest_signature_size

\* the bytes an operation addresses, and whether the payload file holds them all
Addressed(op) == Slice(PayloadFile(header), BlobBase + op.data_offset, op.data_length)
InFile(op) == BlobBase + op.data_offset + op.data_length <= BLen(PayloadFile(header))

\* the operation has been processed by task t: it is the one `last` describes
Processed(t) == task[t].last.status # "none"

\* what an operation of the given type decodes to has exactly `size` bytes
SizeAgrees(type, blob, size) ==
    CASE type = "Zero" -> TRUE
      [] type = "Replace" -> BLen(blob) = size
      [] type \in Compressed -> DecodesToExactly(blob, size)
      [] OTHER -> FALSE

\* the output file after the writes of a log, applied in order to an empty file
RECURSIVE Replay(_, _)
Replay(f, log) ==
    IF log = <<>> THEN f ELSE Replay(WriteAt(f, Head(log).at, Head(log).data), Tail(log))

----------------------------------------------------------------------------
(* C1: every operation that is applied writes exactly num_blocks * 4096 bytes of its
   first destination extent, and an operation whose decoded length differs from that
   size (a REPLACE of another data_length, a stream that decodes to fewer or to more
   bytes) fails without writing. *)
C1_DecodedLengthIsExtentSize ==
    /\ \A t \in Tasks :
          (Processed(t) /\ task[t].last.status = "written") =>
              LET op == OpsOf(t)[task[t].op]
                  size == Head(op.dst_extents).num_blocks * 4096
              IN /\ BLen(task[t].last.data) = size
                 /\ SizeAgrees(op.type, Addressed(op), size)
    /\ wx.status = "ok" =>
          /\ BLen(wx.data) = wx.extent.num_blocks * 4096
          /\ SizeAgrees(wx.extent.operation_type, wx.extent.blob, wx.extent.num_blocks * 4096)

----------------------------------------------------------------------------
(* C2: with verification on, a non-ZERO operation i whose encoded bytes do not hash
   to its data_sha256_hash makes extract fail: no byte is written for operation i or
   a later one, and when extract has returned, the output file exists and holds
   exactly the writes of the operations before i. *)
DigestDiffers(op) == op.type # "Zero" /\ InFile(op) /\ Sha256(Addressed(op)) # op.data_sha256_hash

C2_HashMismatchAborts ==
    verify =>
      \A t \in Tasks : task[t].part # 0 =>
        \A i \in 1..Len(OpsOf(t)) : DigestDiffers(OpsOf(t)[i]) =>
            LET name == manifest[task[t].part].partition_name IN
            /\ task[t].pc # "ok"
            /\ task[t].idx <= i
            /\ \A k \in 1..Len(task[t].wlog) : task[t].wlog[k].op < i
            /\ task[t].pc = "err" =>
                  /\ disk[name].exists
                  /\ disk[name].bytes = Replay(<<>>, task[t].wlog)
                  /\ task[t].op = i =>
                        /\ Len(task[t].wlog) = i - 1
                        /\ \A k \in 1..(i - 1) : task[t].wlog[k].op = k

\* extract has failed on the digest of its second operation, after writing the first
C2_Witness ==
    \E t \in Tasks :
        /\ verify
        /\ task[t].pc = "err"
        /\ task[t].error = "hash"
        /\ task[t].op = 2
        /\ Len(task[t].wlog) = 1
        /\ disk[NameA].bytes = Fill(5, 4096)
        /\ Len(OpsOf(t)) = 3

----------------------------------------------------------------------------
(* C3: an operation whose type is none of REPLACE, REPLACE_XZ, REPLACE_BZ,
   REPLACE_ZSTD, ZERO is never skipped: extract fails on it, writes nothing for it
   and neither reads nor writes a later operation; write_extent returns an error and
   leaves the destination as it was. *)
C3_UnsupportedTypeStops ==
    /\ \A t \in Tasks : task[t].part # 0 =>
          \A i \in 1..Len(OpsOf(t)) : OpsOf(t)[i].type \notin Supported =>
              /\ task[t].pc # "ok"
              /\ task[t].idx <= i
              /\ task[t].nreads <= i
              /\ \A k \in 1..Len(task[t].wlog) : task[t].wlog[k].op < i
              /\ (Processed(t) /\ task[t].op = i) =>
                    /\ task[t].pc = "err"
                    /\ task[t].last.status = "err"
    /\ (wx.status # "none" /\ wx.extent.operation_type \notin Supported) =>
          /\ wx.status = "err"
          /\ destination = wx.before

\* extract has stopped on a MOVE operation whose digest was right, with one more
\* operation left in the partition
C3_Witness ==
    \E t \in Tasks :
        /\ task[t].pc = "err"
        /\ task[t].error = "type"
        /\ OpsOf(t)[task[t].op].type = "Move"
        /\ task[t].op < Len(OpsOf(t))
        /\ task[t].nreads = task[t].op

----------------------------------------------------------------------------
(* C9: a ZERO operation whose first destination extent has num_blocks = k writes
   exactly 4096 * k zero bytes at start_block * 4096, whatever its data_offset,
   data_length, data_sha256_hash and encoded bytes: they cannot make it fail. *)
ZeroWritten(out, extent) ==
    /\ out.status = "written"
    /\ out.at = extent.start_block * 4096
    /\ out.data = Zeros(4096 * extent.num_blocks)

C9_ZeroIgnoresEncodedBytes ==
    /\ \A t \in Tasks :
          (/\ Processed(t)
           /\ OpsOf(t)[task[t].op].type = "Zero"
           /\ OpsOf(t)[task[t].op].dst_extents # <<>>) =>
              ZeroWritten(task[t].last, Head(OpsOf(t)[task[t].op].dst_extents))
    /\ (wx.status # "none" /\ wx.extent.operation_type = "Zero") =>
          /\ wx.status = "ok"
          /\ wx.data = Zeros(4096 * wx.extent.num_blocks)
          /\ destination = WriteAt(wx.before, wx.extent.start_block * 4096, wx.data)

(* C9, amended: extract reads the data_length bytes at data_offset before it looks at
   the type.  When the payload file holds them, a ZERO operation writes exactly
   4096 * k zero bytes at start_block * 4096 whatever those bytes and the digest are;
   when it does not, the operation fails on the read and writes nothing.
   write_extent writes the zeros whatever the blob is. *)
C9_ZeroIgnoresReadableBytes ==
    /\ \A t \in Tasks :
          (/\ Processed(t)
           /\ OpsOf(t)[task[t].op].type = "Zero"
           /\ OpsOf(t)[task[t].op].dst_extents # <<>>) =>
              LET op == OpsOf(t)[task[t].op] IN
              IF InFile(op)
              THEN ZeroWritten(task[t].last, Head(op.dst_extents))
              ELSE /\ task[t].last.status = "err"
                   /\ task[t].last.error = "read"
                   /\ task[t].pc = "err"
                   /\ \A k \in 1..Len(task[t].wlog) : task[t].wlog[k].op < task[t].op
    /\ (wx.status # "none" /\ wx.extent.operation_type = "Zero") =>
          /\ wx.status = "ok"
          /\ wx.data = Zeros(4096 * wx.extent.num_blocks)
          /\ destination = WriteAt(wx.before, wx.extent.start_block * 4096, wx.data)

\* a ZERO operation that addresses two bytes of a compressed stream and carries no
\* digest has written two blocks of zeros, with verification on
C9_Witness ==
    \E t \in Tasks :
        /\ verify
        /\ Processed(t)
        /\ LET op == OpsOf(t)[task[t].op] IN
           /\ op.type = "Zero"
           /\ op.data_length = 2
           /\ op.data_sha256_hash = <<>>
           /\ op.dst_extents = <<[start_block |-> 1, num_blocks |-> 2]>>
        /\ task[t].last.status = "written"
        /\ disk[NameA].bytes = Zeros(3 * 4096)

----------------------------------------------------------------------------
(* C10: a PartitionReader yields exactly one item per operation, in order, and
   returns None only when every operation has been consumed: no operation leaves the
   queue without an item, and None never comes while operations remain. *)
C10_OneItemPerOperation ==
    entry = "pipeline" =>
        /\ Len(items) = rstate.removed
        /\ \A k \in 1..Len(items) : items[k].op = k
        /\ rstate.last = "None" => rdr.operations = <<>>

----------------------------------------------------------------------------
(* C4: extract of a name that no manifest entry carries returns success and does
   nothing: it creates no file, truncates or changes no existing file, and reads
   nothing from the data blob region. *)
Listed(name) == \E i \in 1..Len(decoded) : decoded[i].partition_name = name

C4_UnknownNameIsNoOp ==
    \A t \in Tasks : ~Listed(partitions[t]) =>
        /\ task[t].pc \in {"pending", "ok", "skipped"}
        /\ ~task[t].created
        /\ task[t].nreads = 0
        /\ task[t].wlog = <<>>
        /\ owners[partitions[t]] = {}
        /\ disk[partitions[t]] = IF partitions[t] = NameB THEN Stale ELSE NoFile

\* extract has returned Ok for "b", which the manifest does not list, next to the
\* b.img of an earlier run, and for "a", which has no file
C4_Witness ==
    /\ ~Listed(NameB) /\ ~Listed(NameA)
    /\ \E t, u \in Tasks :
          /\ partitions[t] = NameB /\ task[t].pc = "ok"
          /\ partitions[u] = NameA /\ task[u].pc = "ok"
    /\ disk[NameB] = Stale
    /\ ~disk[NameA].exists

----------------------------------------------------------------------------
(* C5: whatever names are requested (the same one twice included), each output file
   is created, truncated and written by exactly one worker, and no two partition
   tasks running at the same time create, truncate or write the same file. *)
C5_OneWorkerPerFile ==
    /\ \A n \in PartNames : Cardinality(owners[n]) <= 1
    /\ \A t, u \in Tasks :
          (t # u /\ task[t].pc = "loop" /\ task[u].pc = "loop") =>
              manifest[task[t].part].partition_name # manifest[task[u].part].partition_name

----------------------------------------------------------------------------
(* C6: the run returns an error exactly when some partition's extract failed, the
   error is that of the first failure to occur, later errors are dropped, and no
   partition that was started is interrupted. *)
Ended == \A t \in Tasks : task[t].pc \in {"ok", "err", "skipped"}
NeverStarted(t) == task[t].worker = 0 /\ ~task[t].created /\ task[t].nreads = 0

----------------------------------------------------------------------------
(* C7: under every interleaving of the workers, the bytes read for an operation are
   the data_length bytes of the payload file at 24 + manifest_size +
   manifest_signature_size + data_offset; the file's cursor is not used and never
   moves, so no worker's read changes what another reads. *)
C7_ReadsArePositioned ==
    /\ cursor = BlobBase
    /\ \A t \in Tasks : task[t].last.read.done =>
          LET op == OpsOf(t)[task[t].op]
              rd == task[t].last.read
          IN /\ rd.at = 24 + header.manifest_size + header.manifest_signature_size
                        + op.data_offset
             /\ rd.len = op.data_length
             /\ rd.ok => /\ BLen(rd.bytes) = op.data_length
                         /\ rd.bytes = Slice(PayloadFile(header), rd.at, op.data_length)

\* two workers are inside extract at once; one has read its first raw block, the
\* other its second
C7_Witness ==
    \E t, u \in Tasks :
        /\ task[t].worker # task[u].worker
        /\ task[t].pc = "loop" /\ task[u].pc = "loop"
        /\ task[t].last.read.ok /\ task[t].last.read.bytes = Fill(5, 4096)
        /\ task[u].last.read.ok /\ task[u].last.read.at = BlobBase + 4
        /\ task[t].nreads = 1 /\ task[u].nreads = 2

----------------------------------------------------------------------------
(* C8: when the names of a manifest are unique, in whatever order it lists them,
   the lookup of a name returns the entry of that name when there is one (the
   first and the last in sort order included) and NotFound otherwise. *)
C8_LookupByName ==
    looked.called =>
        IF \E i \in 1..Len(decoded) : decoded[i].partition_name = looked.name
        THEN /\ looked.result.ok
             /\ looked.result.idx \in 1..Len(manifest)
             /\ manifest[looked.result.idx].partition_name = looked.name
        ELSE ~looked.result.ok

\* the manifest lists first the name that sorts last of three, and the lookup of
\* that name found it at the end of the index
C8_Witness ==
    /\ looked.called
    /\ Len(decoded) = 3
    /\ decoded[1].partition_name = looked.name
    /\ looked.result.ok
    /\ looked.result.idx = 3
    /\ NameCmp(decoded[2].partition_name, decoded[3].partition_name) = "Greater"

====
